---- MODULE Spec2Model ----
(***************************************************************************)
(* Model of the sales analytics ETL job:                                   *)
(*   src/pyspark-jobs/database_utils.py        (DatabaseManager)           *)
(*   src/pyspark-jobs/sales_analytics_direct.py (the pipeline driver and   *)
(*                                               the transformation)      *)
(*                                                                         *)
(* Three specifications share the module:                                  *)
(*   SpecCred      one DatabaseManager instance, called in any order while *)
(*                 the environment and the secret service change;          *)
(*   SpecTransform process_sales_analytics applied to bounded inputs;      *)
(*   Spec          main() run several times in succession against the same *)
(*                 relational store and warehouse (FairSpec adds progress).*)
(*                                                                         *)
(* Spark evaluates a frame when an action (count, write, show) needs it.   *)
(* Within one run the raw files and the relational tables do not change    *)
(* between the actions that read them (the scheduler allows one active     *)
(* run), so a frame is modelled by the rows it has when it is first read.  *)
(* Calls to GCS, the relational store, the warehouse and gcloud can fail;  *)
(* local computation fails only where Spark rejects a query.               *)
(*                                                                         *)
(* Encoding of values.  A nullable value (Python None, SQL NULL) is a      *)
(* tuple: Null is <<>> and Some(v) is <<v>>.  A Python string is a tuple   *)
(* of one-character strings, so "" is <<>> and str.strip() is computed.    *)
(***************************************************************************)
EXTENDS Integers, Sequences, FiniteSets, Bags, TLC

VARIABLES
    \* ---- DatabaseManager instance (database_utils.py) ----
    host, database, username, port,   \* connection fields set by __init__
    password,                         \* self._password: Null or Some(string)
    env,                              \* os.environ DATABASE_PASSWORD: Null or Some(string)
    lastCall,                         \* observation of the last method call
    \* ---- process_sales_analytics (sales_analytics_direct.py) ----
    sales_df, products_df, stores_df, \* the three input frames
    views,                            \* Null or Some(result of the transformation)
    \* ---- main() (sales_analytics_direct.py) ----
    pc,                               \* position of the driver inside main()
    session,                          \* the Spark session: "none", "active", "stopped"
    files,                            \* this run's raw files (sales, products, stores)
    rel,                              \* relational store: tables products and stores
    wh,                               \* warehouse: the three published tables
    raised,                           \* Null or Some(exception main() raises)
    hist                              \* bookkeeping about this run and the previous one

credVars == <<host, database, username, port, password, env, lastCall>>
xformVars == <<sales_df, products_df, stores_df, views>>
mainVars == <<pc, session, files, rel, wh, raised, hist>>
vars == <<credVars, xformVars, mainVars>>

----------------------------------------------------------------------------
(* Nullable values and strings                                             *)

Null == <<>>
Some(v) == <<v>>
IsNull(o) == o = <<>>
Val(o) == o[1]

EmptyStr == <<>>
Whitespace == {" ", "\n"}

\* Python truthiness of a str (non-empty) and of an int (non-zero).
TruthyStr(s) == Len(s) > 0
TruthyInt(n) == n # 0

RECURSIVE LStrip(_)
LStrip(s) ==
    IF Len(s) > 0 /\ Head(s) \in Whitespace THEN LStrip(Tail(s)) ELSE s

RECURSIVE RStrip(_)
RStrip(s) ==
    IF Len(s) > 0 /\ s[Len(s)] \in Whitespace
    THEN RStrip(SubSeq(s, 1, Len(s) - 1)) ELSE s

\* str.strip()
Strip(s) == RStrip(LStrip(s))

----------------------------------------------------------------------------
(* DatabaseManager                                                         *)

\* Outcomes of subprocess.run(['gcloud', ...], timeout=30).
ExitOk(out) == [kind |-> "exit", rc |-> 0, stdout |-> out]
ExitFail == [kind |-> "exit", rc |-> 1, stdout |-> EmptyStr]
TimedOut == [kind |-> "timeout", rc |-> 0, stdout |-> EmptyStr]
OsError == [kind |-> "oserror", rc |-> 0, stdout |-> EmptyStr]
NoExt == [kind |-> "none", rc |-> 0, stdout |-> EmptyStr]

SecretOutputs ==
    { <<"a">>, <<"b", "\n">>, <<" ", "a", "\n">>, <<>>, <<" ", "\n">> }

ExtOutcomes == {ExitOk(o) : o \in SecretOutputs} \cup {ExitFail, TimedOut, OsError}

ExtFailed(ext) == ext.kind # "exit" \/ ext.rc # 0

EnvValues == {Null, Some(EmptyStr), Some(<<"a">>), Some(<<"b">>)}

\* Mutant: the cached value is not consulted, every call resolves again.
get_password_nocache(cache, envv, ext) ==
    IF ~IsNull(envv) /\ TruthyStr(Val(envv))
    THEN [kind |-> "return", value |-> envv, cache |-> envv,
          envLookup |-> TRUE, extCall |-> FALSE]
    ELSE IF ext.kind = "exit" /\ ext.rc = 0
    THEN [kind |-> "return", value |-> Some(Strip(ext.stdout)),
          cache |-> Some(Strip(ext.stdout)),
          envLookup |-> TRUE, extCall |-> TRUE]
    ELSE [kind |-> "raise", value |-> Null, cache |-> cache,
          envLookup |-> TRUE, extCall |-> TRUE]

\* Mutant: the secret service is asked first, the environment second.
get_password_secretfirst(cache, envv, ext) ==
    IF ~IsNull(cache)
    THEN [kind |-> "return", value |-> cache, cache |-> cache,
          envLookup |-> FALSE, extCall |-> FALSE]
    ELSE IF ext.kind = "exit" /\ ext.rc = 0
    THEN [kind |-> "return", value |-> Some(Strip(ext.stdout)),
          cache |-> Some(Strip(ext.stdout)),
          envLookup |-> FALSE, extCall |-> TRUE]
    ELSE IF ~IsNull(envv) /\ TruthyStr(Val(envv))
    THEN [kind |-> "return", value |-> envv, cache |-> envv,
          envLookup |-> TRUE, extCall |-> TRUE]
    ELSE [kind |-> "raise", value |-> Null, cache |-> cache,
          envLookup |-> TRUE, extCall |-> TRUE]

\* DatabaseManager.get_password: the outcome of one call made with
\* self._password = cache, DATABASE_PASSWORD = envv, and ext the outcome the
\* gcloud subprocess would have if it were started.
get_password(cache, envv, ext) ==
    IF ~IsNull(cache)
    THEN [kind |-> "return", value |-> cache, cache |-> cache,
          envLookup |-> FALSE, extCall |-> FALSE]
    ELSE IF ~IsNull(envv) /\ TruthyStr(Val(envv))
    THEN [kind |-> "return", value |-> envv, cache |-> envv,
          envLookup |-> TRUE, extCall |-> FALSE]
    ELSE IF ext.kind = "exit" /\ ext.rc = 0
    THEN [kind |-> "return", value |-> Some(Strip(ext.stdout)),
          cache |-> Some(Strip(ext.stdout)),
          envLookup |-> TRUE, extCall |-> TRUE]
    ELSE [kind |-> "raise", value |-> Null, cache |-> cache,
          envLookup |-> TRUE, extCall |-> TRUE]

\* all([self.host, self.database, self.username, self.port])
FieldsPresent(h, d, u, p) ==
    TruthyStr(h) /\ TruthyStr(d) /\ TruthyStr(u) /\ TruthyInt(p)

\* Mutant: no try/except around the body, a resolver failure propagates.
health_check_propagates(h, d, u, p, cache, envv, ext) ==
    IF ~FieldsPresent(h, d, u, p)
    THEN [kind |-> "return", ok |-> FALSE, cache |-> cache,
          envLookup |-> FALSE, extCall |-> FALSE]
    ELSE LET r == get_password(cache, envv, ext) IN
         IF r.kind = "raise"
         THEN [kind |-> "raise", ok |-> FALSE, cache |-> r.cache,
               envLookup |-> r.envLookup, extCall |-> r.extCall]
         ELSE [kind |-> "return", ok |-> TruthyStr(Val(r.value)), cache |-> r.cache,
               envLookup |-> r.envLookup, extCall |-> r.extCall]

\* DatabaseManager.health_check.
health_check(h, d, u, p, cache, envv, ext) ==
    IF ~FieldsPresent(h, d, u, p)
    THEN [kind |-> "return", ok |-> FALSE, cache |-> cache,
          envLookup |-> FALSE, extCall |-> FALSE]
    ELSE LET r == get_password(cache, envv, ext) IN
         IF r.kind = "raise"
         THEN \* except Exception: return False
              [kind |-> "return", ok |-> FALSE, cache |-> r.cache,
               envLookup |-> r.envLookup, extCall |-> r.extCall]
         ELSE [kind |-> "return", ok |-> TruthyStr(Val(r.value)), cache |-> r.cache,
               envLookup |-> r.envLookup, extCall |-> r.extCall]

\* DatabaseManager.get_spark_jdbc_properties: the password it carries, or the
\* failure of get_password, which it does not catch.
get_spark_jdbc_properties(cache, envv, ext) == get_password(cache, envv, ext)

HostValues == {EmptyStr, <<"h">>}
DatabaseValues == {EmptyStr, <<"d">>}
UsernameValues == {EmptyStr, <<"u">>}
DefaultPort == 5432
PortValues == {0, DefaultPort}

NoCall ==
    [op |-> "none", kind |-> "return", value |-> Null, ok |-> FALSE,
     envLookup |-> FALSE, extCall |-> FALSE,
     cacheBefore |-> Null, envAt |-> Null, ext |-> NoExt]

\* What a call leaves in lastCall; ext is recorded only when gcloud was started.
Observed(name, r, val, okv, ext) ==
    [op |-> name, kind |-> r.kind, value |-> val, ok |-> okv,
     envLookup |-> r.envLookup, extCall |-> r.extCall,
     cacheBefore |-> password, envAt |-> env,
     ext |-> IF r.extCall THEN ext ELSE NoExt]

----------------------------------------------------------------------------
(* process_sales_analytics                                                 *)
(*                                                                         *)
(* A DataFrame is [columns |-> set of column names, rows |-> sequence of   *)
(* rows]; a row is a function from the frame's columns to nullable values. *)
(* Amounts are exact integers (prices in minor units).                     *)

Frame(cols, rws) == [columns |-> cols, rows |-> rws]

SalesColumns ==
    {"transaction_id", "product_id", "store_id", "quantity", "unit_price",
     "transaction_date", "customer_id"}

Digits == <<"0", "1", "2", "3", "4", "5", "6", "7", "8", "9">>
IsDigit(c) == \E i \in 1..10 : Digits[i] = c
DigitVal(c) == (CHOOSE i \in 1..10 : Digits[i] = c) - 1

\* to_date(col, "yyyy-MM-dd"): the calendar date of a well-formed string,
\* NULL for a NULL or malformed one.
to_date(o) ==
    IF IsNull(o) THEN Null
    ELSE LET s == Val(o) IN
         IF /\ Len(s) = 10
            /\ s[5] = "-" /\ s[8] = "-"
            /\ \A i \in {1, 2, 3, 4, 6, 7, 9, 10} : IsDigit(s[i])
         THEN LET y == 1000 * DigitVal(s[1]) + 100 * DigitVal(s[2])
                       + 10 * DigitVal(s[3]) + DigitVal(s[4])
                  m == 10 * DigitVal(s[6]) + DigitVal(s[7])
                  d == 10 * DigitVal(s[9]) + DigitVal(s[10])
              IN IF m \in 1..12 /\ d \in 1..31
                 THEN Some([y |-> y, m |-> m, d |-> d])
                 ELSE Null
         ELSE Null

\* col("quantity") * col("unit_price"): NULL when either factor is NULL.
Times(a, b) == IF IsNull(a) \/ IsNull(b) THEN Null ELSE Some(Val(a) * Val(b))

\* sales_df.withColumn("transaction_date", ...).withColumn("total_amount", ...)
sales_clean(sales) ==
    Frame(sales.columns \cup {"total_amount"},
          [i \in 1..Len(sales.rows) |->
             LET r == sales.rows[i] IN
             [c \in sales.columns \cup {"total_amount"} |->
                IF c = "transaction_date" THEN to_date(r.transaction_date)
                ELSE IF c = "total_amount" THEN Times(r.quantity, r.unit_price)
                ELSE r[c]]])

\* products_df.drop("unit_price") if "unit_price" in products_df.columns
products_clean(products) ==
    IF "unit_price" \in products.columns
    THEN Frame(products.columns \ {"unit_price"},
               [i \in 1..Len(products.rows) |->
                  [c \in products.columns \ {"unit_price"} |-> products.rows[i][c]]])
    ELSE products

RECURSIVE Flatten(_)
Flatten(ss) == IF ss = <<>> THEN <<>> ELSE Head(ss) \o Flatten(Tail(ss))

\* The right rows a left row joins with: equal, non-NULL keys.
Matches(l, right, key) ==
    SelectSeq(right.rows, LAMBDA r : ~IsNull(l[key]) /\ r[key] = l[key])

\* Mutant: an inner join, a left row without a match is dropped.
JoinRow_inner(l, right, key) ==
    LET extra == right.columns \ {key}
        ms == Matches(l, right, key)
    IN [j \in 1..Len(ms) |-> l @@ [c \in extra |-> ms[j][c]]]

\* The rows of a left join that come from the left row l.
JoinRow(l, right, key) ==
    LET extra == right.columns \ {key}
        ms == Matches(l, right, key)
    IN IF Len(ms) = 0
       THEN << l @@ [c \in extra |-> Null] >>
       ELSE [j \in 1..Len(ms) |-> l @@ [c \in extra |-> ms[j][c]]]

\* left.join(right, key, "left")
LeftJoin(left, right, key) ==
    Frame(left.columns \cup right.columns,
          Flatten([i \in 1..Len(left.rows) |-> JoinRow(left.rows[i], right, key)]))

\* sales_clean.join(products_clean, "product_id", "left")
\*            .join(stores_df, "store_id", "left")
enriched_sales(sales, products, stores) ==
    LeftJoin(LeftJoin(sales_clean(sales), products_clean(products), "product_id"),
             stores, "store_id")

\* ---- aggregate functions over the rows of one group ----

RECURSIVE SumSeq(_)
SumSeq(ns) == IF ns = <<>> THEN 0 ELSE Head(ns) + SumSeq(Tail(ns))

NonNull(rws, c) == SelectSeq([i \in 1..Len(rws) |-> rws[i][c]], LAMBDA o : ~IsNull(o))

\* sum(c): NULL values are skipped; NULL when nothing is left.
sum(rws, c) ==
    LET vs == NonNull(rws, c) IN
    IF Len(vs) = 0 THEN Null ELSE Some(SumSeq([i \in 1..Len(vs) |-> Val(vs[i])]))

\* countDistinct(c): the number of distinct non-NULL values.
countDistinct(rws, c) ==
    LET vs == NonNull(rws, c) IN Cardinality({Val(vs[i]) : i \in 1..Len(vs)})

\* avg(c): the exact quotient num/den of the non-NULL values, NULL when none.
avg(rws, c) ==
    LET vs == NonNull(rws, c) IN
    IF Len(vs) = 0 THEN Null
    ELSE Some([num |-> SumSeq([i \in 1..Len(vs) |-> Val(vs[i])]), den |-> Len(vs)])

\* The grouping key of a row.
KeyOf(r, keyCols) == [c \in keyCols |-> r[c]]

\* groupBy(keyCols): one group per distinct key, NULL being a key value.
GroupKeys(frame, keyCols) ==
    {KeyOf(frame.rows[i], keyCols) : i \in 1..Len(frame.rows)}

GroupRows(frame, keyCols, k) ==
    SelectSeq(frame.rows, LAMBDA r : KeyOf(r, keyCols) = k)

DailyKey == {"transaction_date", "store_id", "store_name", "store_location"}
ProductKey == {"product_id", "product_name", "category"}
StoreKey == {"store_id", "store_name", "store_location"}

\* Mutant: the revenue column sums unit_price.
daily_sales_unitprice(enriched) ==
    {LET g == GroupRows(enriched, DailyKey, k) IN
     k @@ [daily_revenue |-> sum(g, "unit_price"),
           daily_quantity |-> sum(g, "quantity"),
           daily_transactions |-> countDistinct(g, "transaction_id"),
           unique_customers |-> countDistinct(g, "customer_id")]
     : k \in GroupKeys(enriched, DailyKey)}

daily_sales(enriched) ==
    {LET g == GroupRows(enriched, DailyKey, k) IN
     k @@ [daily_revenue |-> sum(g, "total_amount"),
           daily_quantity |-> sum(g, "quantity"),
           daily_transactions |-> countDistinct(g, "transaction_id"),
           unique_customers |-> countDistinct(g, "customer_id")]
     : k \in GroupKeys(enriched, DailyKey)}

product_performance(enriched) ==
    {LET g == GroupRows(enriched, ProductKey, k) IN
     k @@ [total_revenue |-> sum(g, "total_amount"),
           total_quantity_sold |-> sum(g, "quantity"),
           avg_unit_price |-> avg(g, "unit_price"),
           stores_sold_in |-> countDistinct(g, "store_id")]
     : k \in GroupKeys(enriched, ProductKey)}

store_performance(enriched) ==
    {LET g == GroupRows(enriched, StoreKey, k) IN
     k @@ [total_revenue |-> sum(g, "total_amount"),
           total_items_sold |-> sum(g, "quantity"),
           unique_products |-> countDistinct(g, "product_id"),
           unique_customers |-> countDistinct(g, "customer_id")]
     : k \in GroupKeys(enriched, StoreKey)}

\* The columns the joins and the three groupBy calls resolve; a frame that
\* lacks one makes Spark raise an AnalysisException inside the function.
Resolves(products, stores) ==
    /\ {"product_id", "product_name", "category"} \subseteq products.columns
    /\ {"store_id", "store_name", "store_location"} \subseteq stores.columns

NoViews == [kind |-> "error", daily |-> {}, product |-> {}, store |-> {}]

\* process_sales_analytics(sales_df, products_df, stores_df)
process_sales_analytics(sales, products, stores) ==
    IF ~Resolves(products, stores) THEN NoViews
    ELSE \* enriched_sales is built once and the three views are derived from it
         CHOOSE v \in {[kind |-> "ok",
                        daily |-> daily_sales(e),
                        product |-> product_performance(e),
                        store |-> store_performance(e)]
                       : e \in {enriched_sales(sales, products, stores)}} : TRUE

----------------------------------------------------------------------------
----------------------------------------------------------------------------
(* Inputs of the transformation                                            *)

D1 == <<"2", "0", "2", "4", "-", "0", "1", "-", "0", "1">>
D2 == <<"2", "0", "2", "4", "-", "0", "1", "-", "0", "2">>
BadDate == <<"0", "1", "/", "0", "1">>

SaleRow(t, p, s, q, u, d, c) ==
    [transaction_id |-> t, product_id |-> p, store_id |-> s, quantity |-> q,
     unit_price |-> u, transaction_date |-> d, customer_id |-> c]

\* Transactions a sales file is made of: matched and unmatched keys, NULL
\* keys, a NULL quantity, a NULL price, a malformed date.
SaleCatalogue ==
    { SaleRow(Some("t1"), Some("p1"), Some("s1"), Some(2), Some(10), Some(D1), Some("c1")),
      SaleRow(Some("t2"), Some("p1"), Some("s2"), Some(1), Some(5), Some(D1), Some("c2")),
      SaleRow(Some("t3"), Some("p2"), Some("s1"), Some(3), Some(10), Some(D2), Some("c1")),
      SaleRow(Some("t4"), Null, Null, Some(1), Some(5), Some(BadDate), Some("c2")),
      SaleRow(Some("t5"), Some("p1"), Some("s1"), Null, Some(10), Some(D1), Null),
      SaleRow(Some("t6"), Some("p2"), Some("s2"), Some(2), Null, Null, Some("c1")) }

ProdRow(p, n, c) == [product_id |-> p, product_name |-> n, category |-> c]
ProdRowPriced(p, n, c, u) ==
    [product_id |-> p, product_name |-> n, category |-> c, unit_price |-> u]
StoreRow(s, n, l) == [store_id |-> s, store_name |-> n, store_location |-> l]

ProductColumns == {"product_id", "product_name", "category"}
StoreColumns == {"store_id", "store_name", "store_location"}

Widget == ProdRow(Some("p1"), Some("Widget"), Some("Toys"))
Gizmo == ProdRow(Some("p1"), Some("Gizmo"), Some("Toys"))
Lamp == ProdRow(Some("p2"), Some("Lamp"), Some("Home"))
StoreA == StoreRow(Some("s1"), Some("Store A"), Some("NYC"))
StoreB == StoreRow(Some("s1"), Some("Store B"), Some("LA"))
StoreC == StoreRow(Some("s2"), Some("Store C"), Some("SF"))

\* Products frames: empty, one row, two rows with one key, two keys, a frame
\* that carries its own unit_price, a frame without the category column.
ProductFrames ==
    { Frame(ProductColumns, <<>>),
      Frame(ProductColumns, <<Widget>>),
      Frame(ProductColumns, <<Widget, Gizmo>>),
      Frame(ProductColumns, <<Widget, Lamp>>),
      Frame(ProductColumns \cup {"unit_price"},
            <<ProdRowPriced(Some("p1"), Some("Widget"), Some("Toys"), Some(99))>>),
      Frame({"product_id", "product_name"},
            <<[product_id |-> Some("p1"), product_name |-> Some("Widget")]>>) }

StoreFrames ==
    { Frame(StoreColumns, <<>>),
      Frame(StoreColumns, <<StoreA>>),
      Frame(StoreColumns, <<StoreA, StoreB>>),
      Frame(StoreColumns, <<StoreA, StoreC>>) }

MaxTx == 2

\* The sequences of at most n catalogue rows.
RECURSIVE SeqsUpTo(_, _)
SeqsUpTo(S, n) ==
    IF n = 0 THEN {<<>>}
    ELSE LET shorter == SeqsUpTo(S, n - 1) IN
         shorter \cup {Append(q, x) : q \in {r \in shorter : Len(r) = n - 1}, x \in S}

SalesFrames == {Frame(SalesColumns, rws) : rws \in SeqsUpTo(SaleCatalogue, MaxTx)}

EmptyFrame == Frame({}, <<>>)

\* State of the other two parts of the module while one part runs.
XformIdle ==
    /\ sales_df = EmptyFrame /\ products_df = EmptyFrame /\ stores_df = EmptyFrame
    /\ views = Null

CredIdle ==
    /\ host = <<"h">> /\ database = <<"d">> /\ username = <<"u">>
    /\ port = DefaultPort
    /\ password = Null /\ env = Null /\ lastCall = NoCall

MainIdle ==
    /\ pc = "idle" /\ session = "none" /\ files = Null
    /\ rel = Null /\ wh = Null /\ raised = Null /\ hist = Null

\* DatabaseManager.__init__
CredInit ==
    /\ host \in HostValues
    /\ database \in DatabaseValues
    /\ username \in UsernameValues
    /\ port \in PortValues
    /\ password = Null
    /\ env \in EnvValues
    /\ lastCall = NoCall
    /\ XformIdle /\ MainIdle

\* The environment of the process changes between two calls.
SetEnv ==
    /\ \E e \in EnvValues : e # env /\ env' = e
    /\ UNCHANGED <<host, database, username, port, password, lastCall>>
    /\ UNCHANGED <<xformVars, mainVars>>

CallGetPassword ==
    /\ \E ext \in ExtOutcomes :
         LET r == get_password(password, env, ext) IN
         /\ password' = r.cache
         /\ lastCall' = Observed("get_password", r, r.value, FALSE, ext)
    /\ UNCHANGED <<host, database, username, port, env>>
    /\ UNCHANGED <<xformVars, mainVars>>

CallGetSparkJdbcProperties ==
    /\ \E ext \in ExtOutcomes :
         LET r == get_spark_jdbc_properties(password, env, ext) IN
         /\ password' = r.cache
         /\ lastCall' = Observed("get_spark_jdbc_properties", r, r.value, FALSE, ext)
    /\ UNCHANGED <<host, database, username, port, env>>
    /\ UNCHANGED <<xformVars, mainVars>>

CallHealthCheck ==
    /\ \E ext \in ExtOutcomes :
         LET r == health_check(host, database, username, port, password, env, ext) IN
         /\ password' = r.cache
         /\ lastCall' = Observed("health_check", r, Null, r.ok, ext)
    /\ UNCHANGED <<host, database, username, port, env>>
    /\ UNCHANGED <<xformVars, mainVars>>

CredNext ==
    \/ SetEnv
    \/ CallGetPassword
    \/ CallGetSparkJdbcProperties
    \/ CallHealthCheck

SpecCred == CredInit /\ [][CredNext]_vars

----------------------------------------------------------------------------
(* SpecTransform: process_sales_analytics on bounded inputs                *)

XformInit ==
    /\ sales_df \in SalesFrames
    /\ products_df \in ProductFrames
    /\ stores_df \in StoreFrames
    /\ views = Null
    /\ CredIdle /\ MainIdle

Transform ==
    /\ IsNull(views)
    /\ views' = Some(process_sales_analytics(sales_df, products_df, stores_df))
    /\ UNCHANGED <<sales_df, products_df, stores_df>>
    /\ UNCHANGED <<credVars, mainVars>>

XformNext == Transform

SpecTransform == XformInit /\ [][XformNext]_vars

----------------------------------------------------------------------------
(* main(): the pipeline driver                                             *)

\* The statements of main() in program order; pc names the next one.
Steps ==
    << "create_session", "read_sales", "health_check", "read_dimension_files",
       "write_products", "write_stores", "read_back", "transform",
       "write_daily", "write_product", "write_store", "show" >>

StageOfStep(step) ==
    CASE step = "create_session" -> "Init"
      [] step = "read_sales" -> "ReadInputs"
      [] step \in {"health_check", "read_dimension_files",
                   "write_products", "write_stores"} -> "SetupReferenceData"
      [] step = "read_back" -> "ReadReferenceData"
      [] step = "transform" -> "Transform"
      [] step \in {"write_daily", "write_product", "write_store", "show"} -> "Publish"

Stage ==
    IF hist.status = "failed" THEN "Failed"
    ELSE IF hist.status = "done" THEN "Done"
    ELSE StageOfStep(pc)

\* Mutant: mode="append", the rows are added to the table.
jdbc_append(current, frame) ==
    IF IsNull(current) THEN Some(frame)
    ELSE Some(Frame(frame.columns, Val(current).rows \o frame.rows))

\* df.write.jdbc(table, mode="overwrite") that succeeds: the table is
\* dropped, created again from the frame's columns and filled with its rows.
jdbc_overwrite(current, frame) == Some(frame)

\* What a failed overwrite can leave behind: the JDBC writer drops or
\* truncates first and then inserts partition by partition, so the table may
\* be as before, empty, or hold a prefix of the rows.
jdbc_overwrite_failed(current, frame) ==
    {current} \cup {Some(Frame(frame.columns, SubSeq(frame.rows, 1, n))) :
                      n \in 0..(Len(frame.rows) - 1)}

\* Mutant: writeDisposition WRITE_APPEND.
write_to_bigquery_append(current, view, ok) ==
    IF ok THEN current (+) SetToBag(view) ELSE current

\* Mutant: the write reports success without replacing the table.
write_to_bigquery_skipped(current, view, ok) == current

\* Mutant: the table is truncated before a write that then fails.
write_to_bigquery_truncating(current, view, ok) ==
    IF ok THEN SetToBag(view) ELSE EmptyBag

\* write_to_bigquery(df, table_name): WRITE_TRUNCATE with mode overwrite.  The
\* load replaces the whole table when it succeeds and leaves it as it was
\* when it fails (the warehouse's job is atomic for one table).
write_to_bigquery(current, view, ok) ==
    IF ok THEN SetToBag(view) ELSE current

\* str(e) of an exception, as the sequence of the pieces its text is made of.
\* What the PostgreSQL JDBC driver reports when the write of `table` fails: an
\* error of the connection (host unreachable, authentication rejected), which
\* does not mention the table, or an error of a statement on the table.
JdbcWriteErrors(table) ==
    { <<"Connection refused">>,
      <<"ERROR: permission denied for table ", table>> }

\* Mutant: the cause is left out of the message.
wrap_error_generic(msg) == <<"Database connection failed">>

\* raise Exception(f"Database connection failed: {str(e)}")
wrap_error(msg) == <<"Database connection failed: ">> \o msg

\* Mutant: the result of health_check is not looked at.
health_gate_ignored(r) == TRUE

\* if not db_mgr.health_check(): raise Exception("Database health check failed")
\* The refresh goes on only when health_check returned True.
health_gate(r) == r.kind = "return" /\ r.ok

\* Mutant: the failing statement is tried again.
on_error_retry(step) == step

\* An exception inside the try block transfers control to the except clause.
on_error(step) == "except"

\* Mutant: the except clause swallows the exception.
except_handler_swallow(e) == Null

\* except Exception as e: print(...); raise e
except_handler(e) == e

\* Mutant: spark.stop() at the end of the try block only, not in a finally.
after_except_nofinally == "exit"

\* After the except clause the finally clause runs.
after_except == "finally"

\* ---- inputs of a run ----

T1 == SaleRow(Some("t1"), Some("p1"), Some("s1"), Some(2), Some(10), Some(D1), Some("c1"))
T3 == SaleRow(Some("t3"), Some("p2"), Some("s1"), Some(3), Some(10), Some(D2), Some("c1"))

\* Raw files of one run: the full catalogue, the catalogue with product p2
\* removed, and a products file whose header lacks the category column.
SnapFull ==
    [sales |-> Frame(SalesColumns, <<T1, T3>>),
     products |-> Frame(ProductColumns, <<Widget, Lamp>>),
     stores |-> Frame(StoreColumns, <<StoreA>>)]
SnapRemoved ==
    [sales |-> Frame(SalesColumns, <<T1, T3>>),
     products |-> Frame(ProductColumns, <<Widget>>),
     stores |-> Frame(StoreColumns, <<StoreA>>)]
SnapNoCategory ==
    [sales |-> Frame(SalesColumns, <<T1>>),
     products |-> Frame({"product_id", "product_name"},
                        <<[product_id |-> Some("p1"), product_name |-> Some("Widget")]>>),
     stores |-> Frame(StoreColumns, <<StoreA>>)]

InputSnapshots == {SnapFull, SnapRemoved, SnapNoCategory}

\* The relational store before the first run: no tables yet, or tables left
\* by an earlier deployment.
InitialRel ==
    { [products |-> Null, stores |-> Null],
      [products |-> Some(Frame(ProductColumns, <<Gizmo>>)),
       stores |-> Some(Frame(StoreColumns, <<StoreB>>))] }

LegacyViews ==
    process_sales_analytics(Frame(SalesColumns, <<T1>>),
                            Frame(ProductColumns, <<Gizmo>>),
                            Frame(StoreColumns, <<StoreB>>))

\* The warehouse before the first run: empty tables, or tables holding rows
\* of an earlier deployment (twice each).
InitialWh ==
    { [daily_sales_summary |-> EmptyBag, product_performance |-> EmptyBag,
       store_performance |-> EmptyBag],
      [daily_sales_summary |-> SetToBag(LegacyViews.daily) (+) SetToBag(LegacyViews.daily),
       product_performance |-> SetToBag(LegacyViews.product) (+) SetToBag(LegacyViews.product),
       store_performance |-> SetToBag(LegacyViews.store) (+) SetToBag(LegacyViews.store)] }

MainEnvValues == {Null, Some(<<"a">>)}
MainExtOutcomes == {ExitOk(<<"a", "\n">>), ExitOk(<<"\n">>), ExitFail, TimedOut}

MaxRuns == 2

\* The record of one run: the statements executed, how the run stands, what
\* health_check returned (Null while it was not called), and the contents of
\* the two stores when the run started.
NewHist(n, r, w, prev) ==
    [run |-> n, status |-> "running", failedAt |-> Null, trace |-> <<>>,
     health |-> Null, relStart |-> r, whStart |-> w, prev |-> prev]

\* A fresh process about to call main(): module level of the script.
MainInit ==
    /\ host \in HostValues
    /\ database = <<"d">> /\ username = <<"u">> /\ port = DefaultPort
    /\ password = Null
    /\ env \in MainEnvValues
    /\ lastCall = NoCall
    /\ XformIdle
    /\ pc = "create_session"
    /\ session = "none"
    /\ files \in InputSnapshots
    /\ rel \in InitialRel
    /\ wh \in InitialWh
    /\ raised = Null
    /\ hist = NewHist(1, rel, wh, Null)

\* The statement `step` completes and control moves to `next`; `h` is what
\* health_check has returned so far in this run.
OkH(step, next, h) ==
    /\ pc' = next
    /\ hist' = [hist EXCEPT !.trace = Append(@, step), !.health = h]
    /\ raised' = raised

Ok(step, next) == OkH(step, next, hist.health)

\* The statement `step` raises an exception whose text is `msg` inside the
\* try block.  `wrapped` tells whether read_reference_data caught it and
\* raised "Database connection failed: ..." in its place.
FailH(step, wrapped, msg, h) ==
    /\ pc' = on_error(step)
    /\ hist' = [hist EXCEPT !.trace = Append(@, step), !.status = "failed",
                            !.failedAt = IF IsNull(@) THEN Some(step) ELSE @,
                            !.health = h]
    /\ raised' = Some([cause |-> step, wrapped |-> wrapped,
                       text |-> IF wrapped THEN wrap_error(msg) ELSE msg])

Fail(step, wrapped, msg) == FailH(step, wrapped, msg, hist.health)

dbVars == <<host, database, username, port, env, lastCall>>

\* spark = create_spark_session(); spark.sparkContext.setLogLevel("INFO")
CreateSession ==
    /\ pc = "create_session"
    /\ \E ok \in BOOLEAN :
         IF ok
         THEN /\ session' = "active"
              /\ Ok("create_session", "read_sales")
         ELSE \* no session was built and the try block is not entered
              /\ session' = session
              /\ pc' = "exit"
              /\ hist' = [hist EXCEPT !.trace = Append(@, "create_session"),
                                      !.status = "failed",
                                      !.failedAt = Some("create_session")]
              /\ raised' = Some([cause |-> "create_session", wrapped |-> FALSE,
                                 text |-> <<"Cannot create Spark session">>])
    /\ UNCHANGED <<files, rel, wh>>
    /\ UNCHANGED <<dbVars, password, xformVars>>

\* sales_df = read_sales_data(spark); sales_df.count()
ReadSales ==
    /\ pc = "read_sales"
    /\ \E ok \in BOOLEAN :
         IF ok
         THEN /\ sales_df' = files.sales
              /\ Ok("read_sales", "health_check")
         ELSE /\ sales_df' = sales_df
              /\ Fail("read_sales", FALSE, <<"Path does not exist">>)
    /\ UNCHANGED <<session, files, rel, wh>>
    /\ UNCHANGED <<dbVars, password, products_df, stores_df, views>>

\* read_reference_data: db_mgr = get_database_manager();
\* if not db_mgr.health_check(): raise Exception(...)
HealthCheck ==
    /\ pc = "health_check"
    /\ IF ~(TruthyStr(host) /\ TruthyStr(database) /\ TruthyStr(username))
       THEN \* create_database_manager_from_env raises ValueError
            /\ password' = password
            /\ Fail("health_check", TRUE,
                    <<"Missing required environment variables: ", "CLOUDSQL_IP">>)
       ELSE \E ext \in MainExtOutcomes :
              LET r == health_check(host, database, username, port,
                                    password, env, ext) IN
              /\ password' = r.cache
              /\ IF health_gate(r)
                 THEN OkH("health_check", "read_dimension_files", Some(r.ok))
                 ELSE FailH("health_check", TRUE,
                            <<"Database health check failed">>, Some(r.ok))
    /\ UNCHANGED <<session, files, rel, wh>>
    /\ UNCHANGED <<dbVars, xformVars>>

\* setup_reference_tables: read the two CSV files, get the JDBC properties.
ReadDimensionFiles ==
    /\ pc = "read_dimension_files"
    /\ \E ok \in BOOLEAN, ext \in MainExtOutcomes :
         LET r == get_spark_jdbc_properties(password, env, ext) IN
         /\ password' = IF ok THEN r.cache ELSE password
         /\ IF ok /\ r.kind = "return"
            THEN Ok("read_dimension_files", "write_products")
            ELSE Fail("read_dimension_files", TRUE,
                      IF ok THEN <<"Could not retrieve password for secret">>
                            ELSE <<"Path does not exist">>)
    /\ UNCHANGED <<session, files, rel, wh>>
    /\ UNCHANGED <<dbVars, xformVars>>

\* products_csv.write.jdbc(table="products", mode="overwrite")
WriteProducts ==
    /\ pc = "write_products"
    /\ \/ /\ rel' = [rel EXCEPT !.products = jdbc_overwrite(@, files.products)]
          /\ Ok("write_products", "write_stores")
       \/ /\ \E left \in jdbc_overwrite_failed(rel.products, files.products) :
               rel' = [rel EXCEPT !.products = left]
          /\ \E msg \in JdbcWriteErrors("products") :
               Fail("write_products", TRUE, msg)
    /\ UNCHANGED <<session, files, wh>>
    /\ UNCHANGED <<dbVars, password, xformVars>>

\* stores_csv.write.jdbc(table="stores", mode="overwrite")
WriteStores ==
    /\ pc = "write_stores"
    /\ \/ /\ rel' = [rel EXCEPT !.stores = jdbc_overwrite(@, files.stores)]
          /\ Ok("write_stores", "read_back")
       \/ /\ \E left \in jdbc_overwrite_failed(rel.stores, files.stores) :
               rel' = [rel EXCEPT !.stores = left]
          /\ \E msg \in JdbcWriteErrors("stores") :
               Fail("write_stores", TRUE, msg)
    /\ UNCHANGED <<session, files, wh>>
    /\ UNCHANGED <<dbVars, password, xformVars>>

\* read_reference_data: spark.read.jdbc of both tables; then, back in main,
\* products_df.count() and stores_df.count().
ReadBack ==
    /\ pc = "read_back"
    /\ \/ /\ ~IsNull(rel.products) /\ ~IsNull(rel.stores)
          /\ products_df' = Val(rel.products)
          /\ stores_df' = Val(rel.stores)
          /\ Ok("read_back", "transform")
       \/ /\ UNCHANGED <<products_df, stores_df>>
          /\ \E wrapped \in BOOLEAN :
               Fail("read_back", wrapped, <<"Connection refused">>)
    /\ UNCHANGED <<session, files, rel, wh>>
    /\ UNCHANGED <<dbVars, password, sales_df, views>>

\* daily_sales, product_performance, store_performance =
\*     process_sales_analytics(sales_df, products_df, stores_df)
ProcessAnalytics ==
    /\ pc = "transform"
    /\ views' = Some(process_sales_analytics(sales_df, products_df, stores_df))
    /\ IF Val(views').kind = "ok"
       THEN Ok("transform", "write_daily")
       ELSE Fail("transform", FALSE, <<"Column cannot be resolved">>)
    /\ UNCHANGED <<session, files, rel, wh>>
    /\ UNCHANGED <<dbVars, password, sales_df, products_df, stores_df>>

\* write_to_bigquery(daily_sales, "daily_sales_summary")
WriteDaily ==
    /\ pc = "write_daily"
    /\ \E ok \in BOOLEAN :
         /\ wh' = [wh EXCEPT !.daily_sales_summary =
                                write_to_bigquery(@, Val(views).daily, ok)]
         /\ IF ok THEN Ok("write_daily", "write_product")
                  ELSE Fail("write_daily", FALSE, <<"BigQuery write failed">>)
    /\ UNCHANGED <<session, files, rel>>
    /\ UNCHANGED <<dbVars, password, xformVars>>

\* write_to_bigquery(product_performance, "product_performance")
WriteProduct ==
    /\ pc = "write_product"
    /\ \E ok \in BOOLEAN :
         /\ wh' = [wh EXCEPT !.product_performance =
                                write_to_bigquery(@, Val(views).product, ok)]
         /\ IF ok THEN Ok("write_product", "write_store")
                  ELSE Fail("write_product", FALSE, <<"BigQuery write failed">>)
    /\ UNCHANGED <<session, files, rel>>
    /\ UNCHANGED <<dbVars, password, xformVars>>

\* write_to_bigquery(store_performance, "store_performance")
WriteStore ==
    /\ pc = "write_store"
    /\ \E ok \in BOOLEAN :
         /\ wh' = [wh EXCEPT !.store_performance =
                                write_to_bigquery(@, Val(views).store, ok)]
         /\ IF ok THEN Ok("write_store", "show")
                  ELSE Fail("write_store", FALSE, <<"BigQuery write failed">>)
    /\ UNCHANGED <<session, files, rel>>
    /\ UNCHANGED <<dbVars, password, xformVars>>

\* The three show(5) calls and the final print: the try block ends.
ShowResults ==
    /\ pc = "show"
    /\ \/ /\ pc' = "finally"
          /\ hist' = [hist EXCEPT !.trace = Append(@, "show"), !.status = "done"]
          /\ raised' = raised
       \/ Fail("show", FALSE, <<"Job aborted">>)
    /\ UNCHANGED <<session, files, rel, wh>>
    /\ UNCHANGED <<dbVars, password, xformVars>>

\* except Exception as e: print(...); raise e
Except ==
    /\ pc = "except"
    /\ raised' = except_handler(raised)
    /\ pc' = after_except
    /\ hist' = [hist EXCEPT !.trace = Append(@, "except")]
    /\ UNCHANGED <<session, files, rel, wh>>
    /\ UNCHANGED <<dbVars, password, xformVars>>

\* finally: spark.stop()
StopSession ==
    /\ pc = "finally"
    /\ session' = "stopped"
    /\ pc' = "exit"
    /\ hist' = [hist EXCEPT !.trace = Append(@, "stop")]
    /\ UNCHANGED <<files, rel, wh, raised>>
    /\ UNCHANGED <<dbVars, password, xformVars>>

\* The process has ended; the scheduler starts the job again in a new
\* process with that day's files.  The stores keep their contents.
NextRun ==
    /\ pc = "exit"
    /\ hist.run < MaxRuns
    /\ files' \in InputSnapshots
    /\ pc' = "create_session"
    /\ session' = "none"
    /\ raised' = Null
    /\ password' = Null
    /\ sales_df' = EmptyFrame /\ products_df' = EmptyFrame /\ stores_df' = EmptyFrame
    /\ views' = Null
    /\ hist' = NewHist(hist.run + 1, rel, wh,
                       Some([files |-> files, status |-> hist.status,
                             rel |-> rel, wh |-> wh, whStart |-> hist.whStart]))
    /\ UNCHANGED <<rel, wh>>
    /\ UNCHANGED dbVars

RunStep ==
    \/ CreateSession
    \/ ReadSales
    \/ HealthCheck
    \/ ReadDimensionFiles
    \/ WriteProducts
    \/ WriteStores
    \/ ReadBack
    \/ ProcessAnalytics
    \/ WriteDaily
    \/ WriteProduct
    \/ WriteStore
    \/ ShowResults
    \/ Except
    \/ StopSession

Next == RunStep \/ NextRun

Spec == MainInit /\ [][Next]_vars

\* A started process keeps executing: main() is sequential code.
FairSpec == Spec /\ WF_vars(RunStep)

----------------------------------------------------------------------------
(* Properties of DatabaseManager, checked under SpecCred                   *)

\* A credential is pre-injected when DATABASE_PASSWORD is set to a non-empty
\* string (the code tests the truth of os.getenv's result).
EnvPresent(envv) == ~IsNull(envv) /\ TruthyStr(Val(envv))

\* The last call was a get_password that had to resolve the credential.
Resolving == lastCall.op = "get_password" /\ IsNull(lastCall.cacheBefore)

\* C1: when get_password resolves the credential, a pre-injected credential
\* is returned and the external secret call is not made; without one the
\* external call is made, and if it errors, exits non-zero or times out,
\* get_password raises and neither returns nor caches a credential.
C1_PriorityOrder ==
    Resolving =>
        /\ EnvPresent(lastCall.envAt) =>
              /\ lastCall.kind = "return"
              /\ lastCall.value = lastCall.envAt
              /\ ~lastCall.extCall
        /\ ~EnvPresent(lastCall.envAt) =>
              /\ lastCall.extCall
              /\ ExtFailed(lastCall.ext) =>
                    /\ lastCall.kind = "raise"
                    /\ IsNull(lastCall.value)
                    /\ IsNull(password)

C1_Witness ==
    /\ Resolving
    /\ ~EnvPresent(lastCall.envAt)
    /\ lastCall.extCall
    /\ lastCall.ext = TimedOut
    /\ lastCall.kind = "raise"

\* C2: once a credential is cached, every call that reads it returns the
\* cached value, looks at neither the environment nor the secret service,
\* and no step ever changes the cached value.
C2_CachedReadOnly ==
    /\ [](/\ lastCall.op \in {"get_password", "get_spark_jdbc_properties"}
          /\ ~IsNull(lastCall.cacheBefore)
          => /\ lastCall.kind = "return"
             /\ lastCall.value = lastCall.cacheBefore
             /\ ~lastCall.envLookup
             /\ ~lastCall.extCall)
    /\ [][~IsNull(password) => password' = password]_vars

C2_Witness ==
    /\ lastCall.op = "get_password"
    /\ ~IsNull(lastCall.cacheBefore)
    /\ EnvPresent(lastCall.envAt)
    /\ lastCall.envAt # lastCall.cacheBefore
    /\ lastCall.value = lastCall.cacheBefore

\* The last health_check had all four fields and found no credential: nothing
\* cached, nothing injected, and the external call failed.
ResolutionFailed ==
    /\ FieldsPresent(host, database, username, port)
    /\ IsNull(lastCall.cacheBefore)
    /\ ~EnvPresent(lastCall.envAt)
    /\ lastCall.extCall
    /\ ExtFailed(lastCall.ext)

CredentialHeld == ~IsNull(password) /\ TruthyStr(Val(password))

\* C6 as stated: True only with all fields and a resolved credential, False
\* without raising on a missing field, and a failed credential resolution
\* propagates to the caller.
C6_AsStated ==
    lastCall.op = "health_check" =>
        /\ lastCall.ok =>
              FieldsPresent(host, database, username, port) /\ CredentialHeld
        /\ ~FieldsPresent(host, database, username, port) =>
              lastCall.kind = "return" /\ ~lastCall.ok
        /\ ResolutionFailed => lastCall.kind = "raise"

\* C6 amended: health_check never raises.  It returns True exactly when the
\* four fields are all non-empty and a non-empty credential was resolved; a
\* missing field gives False without any resolution attempt; a failed
\* credential resolution is caught and gives False.
C6_HealthCheckNeverRaises ==
    lastCall.op = "health_check" =>
        /\ lastCall.kind = "return"
        /\ lastCall.ok <=>
              (FieldsPresent(host, database, username, port) /\ CredentialHeld)
        /\ ~FieldsPresent(host, database, username, port) =>
              /\ ~lastCall.envLookup
              /\ ~lastCall.extCall
              /\ password = lastCall.cacheBefore
        /\ ResolutionFailed => ~lastCall.ok /\ IsNull(password)

C6_Witness ==
    /\ lastCall.op = "health_check"
    /\ ResolutionFailed
    /\ lastCall.kind = "return"
    /\ ~lastCall.ok

----------------------------------------------------------------------------
(* Properties of process_sales_analytics, checked under SpecTransform      *)

Transformed == ~IsNull(views) /\ Val(views).kind = "ok"

\* The enriched rows that come from the i-th transaction.
EnrichedOf(i) ==
    enriched_sales(Frame(sales_df.columns, <<sales_df.rows[i]>>),
                   products_df, stores_df).rows

RECURSIVE SetToSeq(_)
SetToSeq(S) ==
    IF S = {} THEN <<>>
    ELSE LET x == CHOOSE y \in S : TRUE IN <<x>> \o SetToSeq(S \ {x})

\* quantity times the transaction's own unit_price, once per enriched row.
ExpectedAmounts ==
    Flatten([i \in 1..Len(sales_df.rows) |->
               [j \in 1..Len(EnrichedOf(i)) |->
                  [total_amount |->
                     Times(sales_df.rows[i].quantity, sales_df.rows[i].unit_price)]]])

\* C8: for a non-empty set of transactions, sum(daily_revenue) over the
\* groups of the daily summary equals sum(quantity * unit_price) over the
\* enriched rows (sum skips NULL and is NULL when every term is NULL).
C8_Conservation ==
    Transformed /\ Len(sales_df.rows) > 0 =>
        sum(SetToSeq(Val(views).daily), "daily_revenue")
            = sum(ExpectedAmounts, "total_amount")

C8_Witness ==
    /\ Transformed
    /\ Len(sales_df.rows) = 2
    /\ Cardinality(Val(views).daily) >= 2
    /\ Len(ExpectedAmounts) > Len(sales_df.rows)
    /\ \E g \in Val(views).daily : IsNull(g.daily_revenue)
    /\ ~IsNull(sum(ExpectedAmounts, "total_amount"))

Unmatched(i, dim, key) == Len(Matches(sales_df.rows[i], dim, key)) = 0

\* No key value occurs in two rows of the dimension frame.
UniqueKey(dim, key) ==
    \A i, j \in 1..Len(dim.rows) :
        i # j => dim.rows[i][key] # dim.rows[j][key]

\* The groups of a view that the i-th transaction contributes to.
GroupsOf(i, keyCols) == {KeyOf(EnrichedOf(i)[j], keyCols) : j \in 1..Len(EnrichedOf(i))}

ViewKeys(view, keyCols) == {KeyOf(g, keyCols) : g \in view}

\* Every transaction is kept by the joins, an unmatched key leaves the
\* dimension fields NULL, and every group a transaction falls in, NULL keys
\* included, is a group of the view.
Preserved(i) ==
    /\ Len(EnrichedOf(i)) >= 1
    /\ Unmatched(i, products_df, "product_id") =>
          \A j \in 1..Len(EnrichedOf(i)) :
              /\ EnrichedOf(i)[j].product_id = sales_df.rows[i].product_id
              /\ IsNull(EnrichedOf(i)[j].product_name)
              /\ IsNull(EnrichedOf(i)[j].category)
    /\ Unmatched(i, stores_df, "store_id") =>
          \A j \in 1..Len(EnrichedOf(i)) :
              /\ EnrichedOf(i)[j].store_id = sales_df.rows[i].store_id
              /\ IsNull(EnrichedOf(i)[j].store_name)
              /\ IsNull(EnrichedOf(i)[j].store_location)
    /\ GroupsOf(i, DailyKey) # {}
    /\ GroupsOf(i, DailyKey) \subseteq ViewKeys(Val(views).daily, DailyKey)
    /\ GroupsOf(i, ProductKey) # {}
    /\ GroupsOf(i, ProductKey) \subseteq ViewKeys(Val(views).product, ProductKey)
    /\ GroupsOf(i, StoreKey) # {}
    /\ GroupsOf(i, StoreKey) \subseteq ViewKeys(Val(views).store, StoreKey)

\* C9 as stated: every transaction is preserved and contributes to exactly
\* one group of each of the three views.
C9_AsStated ==
    Transformed =>
        \A i \in 1..Len(sales_df.rows) :
            /\ Preserved(i)
            /\ Cardinality(GroupsOf(i, DailyKey)) = 1
            /\ Cardinality(GroupsOf(i, ProductKey)) = 1
            /\ Cardinality(GroupsOf(i, StoreKey)) = 1

\* C9 amended: every transaction is preserved, with NULL dimension fields
\* for an unmatched key, and its groups (NULL-keyed ones included) are in the
\* views; it contributes to exactly one group of a view when the dimension
\* table that view is keyed on has no key in two rows, and to at least one
\* group otherwise.
C9_LeftJoinPreservation ==
    Transformed =>
        \A i \in 1..Len(sales_df.rows) :
            /\ Preserved(i)
            /\ UniqueKey(stores_df, "store_id") =>
                  /\ Cardinality(GroupsOf(i, DailyKey)) = 1
                  /\ Cardinality(GroupsOf(i, StoreKey)) = 1
            /\ UniqueKey(products_df, "product_id") =>
                  Cardinality(GroupsOf(i, ProductKey)) = 1

C9_Witness ==
    /\ Transformed
    /\ Len(products_df.rows) > 0 /\ Len(stores_df.rows) > 0
    /\ UniqueKey(products_df, "product_id") /\ UniqueKey(stores_df, "store_id")
    /\ \E i \in 1..Len(sales_df.rows) :
          /\ Unmatched(i, products_df, "product_id")
          /\ Unmatched(i, stores_df, "store_id")
          /\ ~IsNull(sales_df.rows[i].product_id)
          /\ \E g \in Val(views).product :
                /\ g.product_id = sales_df.rows[i].product_id
                /\ IsNull(g.product_name)
    /\ \E i \in 1..Len(sales_df.rows) : ~Unmatched(i, products_df, "product_id")

----------------------------------------------------------------------------
(* Properties of main(), checked under Spec and FairSpec                   *)

StageOrder ==
    << "Init", "ReadInputs", "SetupReferenceData", "ReadReferenceData",
       "Transform", "Publish", "Done" >>

Terminal == {"Done", "Failed"}

\* The stage after this step of the driver.
StageNext ==
    IF hist'.status = "failed" THEN "Failed"
    ELSE IF hist'.status = "done" THEN "Done"
    ELSE StageOfStep(pc')

\* The statements of the try block (and the session creation before it) that
\* this run has executed, in the order of execution.
TryTrace == SelectSeq(hist.trace, LAMBDA x : x \notin {"except", "stop"})

IsPrefix(a, b) == Len(a) <= Len(b) /\ a = SubSeq(b, 1, Len(a))

Executed(step) == \E i \in 1..Len(hist.trace) : hist.trace[i] = step

RunEnded == pc = "exit"

\* What has run so far is an initial part of the program order, each
\* statement once; a failed run executed nothing after the failing statement
\* and raises that failure; a run that is done executed everything.
C3_Inv ==
    /\ IsPrefix(TryTrace, Steps)
    /\ hist.status = "running" => pc = Steps[Len(TryTrace) + 1]
    /\ hist.status = "failed" =>
          /\ Len(TryTrace) > 0
          /\ hist.failedAt = Some(TryTrace[Len(TryTrace)])
          /\ RunEnded => ~IsNull(raised) /\ Val(raised).cause = Val(hist.failedAt)
    /\ hist.status = "done" => TryTrace = Steps /\ IsNull(raised)

\* A step keeps the stage, moves to the next stage in order, moves a
\* non-terminal stage to Failed, or (a new run) leaves a terminal stage for
\* Init; in Failed no table of either store is written.
C3_Step ==
    /\ \/ StageNext = Stage
       \/ \E i \in 1..(Len(StageOrder) - 1) :
             Stage = StageOrder[i] /\ StageNext = StageOrder[i + 1]
       \/ Stage \notin Terminal /\ StageNext = "Failed"
       \/ Stage \in Terminal /\ StageNext = "Init" /\ hist'.run = hist.run + 1
    /\ Stage = "Failed" => wh' = wh /\ rel' = rel

\* C3: the driver goes through Init, ReadInputs, SetupReferenceData,
\* ReadReferenceData, Transform, Publish, Done in that order, no statement
\* skipped, repeated or retried; an error moves the run to Failed, after
\* which nothing more of the try block runs, nothing is published, and the
\* first failure is what main() raises.
C3_StageOrder == [](C3_Inv) /\ [][C3_Step]_vars

C3_Witness ==
    /\ RunEnded
    /\ hist.status = "failed"
    /\ hist.failedAt = Some("write_product")
    /\ Val(raised).cause = "write_product"
    /\ Executed("write_daily")
    /\ ~Executed("write_store")

Tables == {"daily_sales_summary", "product_performance", "store_performance"}

WriterOf(t) ==
    CASE t = "daily_sales_summary" -> "write_daily"
      [] t = "product_performance" -> "write_product"
      [] t = "store_performance" -> "write_store"

\* The complete view of this run that goes to table t.
ViewFor(t) ==
    CASE t = "daily_sales_summary" -> Val(views).daily
      [] t = "product_performance" -> Val(views).product
      [] t = "store_performance" -> Val(views).store

\* C5: in a failed run nothing of the try block ran after the failing
\* statement, and every warehouse table either is as it was when the run
\* started or holds the complete view of this run, written by a publish
\* statement that ran and did not fail.
C5_NoPartialTable ==
    hist.status = "failed" =>
        /\ hist.failedAt = Some(TryTrace[Len(TryTrace)])
        /\ \A t \in Tables :
              \/ wh[t] = hist.whStart[t]
              \/ /\ Transformed
                 /\ wh[t] = SetToBag(ViewFor(t))
                 /\ Executed(WriterOf(t))
                 /\ hist.failedAt # Some(WriterOf(t))

C5_Witness ==
    /\ RunEnded
    /\ hist.status = "failed"
    /\ hist.failedAt = Some("write_product")
    /\ wh.daily_sales_summary # hist.whStart.daily_sales_summary
    /\ wh.daily_sales_summary = SetToBag(Val(views).daily)
    /\ wh.product_performance = hist.whStart.product_performance
    /\ wh.product_performance # EmptyBag

RowSet(frame) == {frame.rows[i] : i \in 1..Len(frame.rows)}

\* setup_reference_tables has returned in this run.
Refreshed == Executed("write_stores") /\ hist.failedAt # Some("write_stores")

\* C7: once a run has refreshed the reference tables, products and stores
\* each hold exactly the content of that run's raw file, until the run ends
\* and whatever earlier runs wrote; a product of the previous run's file that
\* is not in this run's file is not in the products table.
C7_OverwriteNotMerge ==
    Refreshed =>
        /\ rel.products = Some(files.products)
        /\ rel.stores = Some(files.stores)
        /\ ~IsNull(hist.prev) =>
              \A r \in RowSet(Val(hist.prev).files.products) \ RowSet(files.products) :
                  r \notin RowSet(Val(rel.products))

C7_Witness ==
    /\ RunEnded
    /\ Refreshed
    /\ ~IsNull(hist.prev)
    /\ ~IsNull(Val(hist.prev).rel.products)
    /\ Lamp \in RowSet(Val(Val(hist.prev).rel.products))
    /\ Lamp \in RowSet(Val(hist.prev).files.products)
    /\ Lamp \notin RowSet(files.products)
    /\ Lamp \notin RowSet(Val(rel.products))

\* C10: when a run that completed is followed by a run on identical files,
\* the three warehouse tables hold after the second run, however it ends,
\* exactly what they held after the first.
C10_IdempotentPublication ==
    /\ RunEnded
    /\ ~IsNull(hist.prev)
    /\ Val(hist.prev).status = "done"
    /\ Val(hist.prev).files = files
    => wh = Val(hist.prev).wh

C10_Witness ==
    /\ RunEnded
    /\ hist.status = "done"
    /\ ~IsNull(hist.prev)
    /\ Val(hist.prev).status = "done"
    /\ Val(hist.prev).files = files
    /\ Val(hist.prev).whStart # Val(hist.prev).wh
    /\ wh = Val(hist.prev).wh
    /\ wh.daily_sales_summary # EmptyBag

----------------------------------------------------------------------------
(* Properties of the reference refresh, checked under Spec                 *)

RefreshWrites == {"write_products", "write_stores"}

TableOfStep(step) == IF step = "write_products" THEN "products" ELSE "stores"

\* The run failed in the overwrite of a reference table.
RefreshWriteFailed ==
    ~IsNull(hist.failedAt) /\ Val(hist.failedAt) \in RefreshWrites

\* The text of the raised exception mentions the table.
Identifies(table) ==
    \E i \in 1..Len(Val(raised).text) : Val(raised).text[i] = table

Occurrences(step) == Cardinality({i \in 1..Len(hist.trace) : hist.trace[i] = step})

PositionOf(step) == CHOOSE i \in 1..Len(hist.trace) : hist.trace[i] = step

\* The failed write ran once, and after it only the except and finally
\* clauses ran: nothing of the try block that follows it was executed.
NotRetriedAndRestSkipped ==
    LET w == Val(hist.failedAt) IN
    /\ Occurrences(w) = 1
    /\ \A i \in (PositionOf(w) + 1)..Len(hist.trace) :
          hist.trace[i] \in {"except", "stop"}
    /\ w = "write_products" => ~Executed("write_stores")
    /\ \A later \in {"read_back", "transform", "write_daily",
                      "write_product", "write_store", "show"} : ~Executed(later)
    /\ pc \in {"except", "finally", "exit"}
    /\ views = Null /\ wh = hist.whStart

\* C11 as stated: when the overwrite of a reference table fails, the error
\* identifies the table that was being written, the write is not retried and
\* the remaining steps of the run are not executed.
C11_AsStated ==
    RefreshWriteFailed =>
        /\ ~IsNull(raised)
        /\ Identifies(TableOfStep(Val(hist.failedAt)))
        /\ NotRetriedAndRestSkipped

\* C11, amended: when the overwrite of a reference table fails, the run
\* raises "Database connection failed: " followed by the text of the JDBC
\* driver's error, to which the code adds no table name (so the error names
\* the table only when the driver's text does); the write is not retried and
\* the remaining steps of the run are not executed.
C11_RefreshFailure ==
    RefreshWriteFailed =>
        /\ ~IsNull(raised)
        /\ Val(raised).wrapped
        /\ Head(Val(raised).text) = "Database connection failed: "
        /\ Tail(Val(raised).text) \in JdbcWriteErrors(TableOfStep(Val(hist.failedAt)))
        /\ NotRetriedAndRestSkipped

\* The products table was replaced, the overwrite of stores then failed with
\* an error of the connection, and the run has ended without the rest.
C11_Witness ==
    /\ RunEnded
    /\ hist.failedAt = Some("write_stores")
    /\ rel.products = Some(files.products)
    /\ ~Identifies("stores")
    /\ hist.trace = <<"create_session", "read_sales", "health_check",
                      "read_dimension_files", "write_products", "write_stores",
                      "except", "stop">>

----------------------------------------------------------------------------
(* The resolved credential, checked under SpecCred                         *)

\* C12 as stated: a credential that get_password returns or caches is never
\* empty.  The cache never holds an empty string, and a get_password or
\* get_spark_jdbc_properties call that returns gives a non-empty password, so
\* an external call that exits 0 with empty or whitespace-only output is not
\* cached and not returned.
C12_AsStated ==
    /\ ~IsNull(password) => TruthyStr(Val(password))
    /\ (/\ lastCall.op \in {"get_password", "get_spark_jdbc_properties"}
        /\ lastCall.kind = "return")
           => ~IsNull(lastCall.value) /\ TruthyStr(Val(lastCall.value))

----------------------------------------------------------------------------
(* The health check and the writes of a run, checked under Spec            *)

HealthPassed == hist.health = Some(TRUE)

\* The statements that overwrite a reference table, read the tables back or
\* publish a view.
GatedSteps ==
    {"write_products", "write_stores", "read_back",
     "write_daily", "write_product", "write_store"}

C13_Inv ==
    /\ \A step \in GatedSteps :
          (Executed(step) \/ pc = step) =>
              /\ HealthPassed
              /\ \E i \in 1..Len(hist.trace) :
                    /\ hist.trace[i] = "health_check"
                    /\ \A j \in 1..i : hist.trace[j] \notin GatedSteps
    /\ ~HealthPassed => rel = hist.relStart /\ wh = hist.whStart

\* C13: the health check gates all writes of a run.  No overwrite of
\* products or stores, no read-back and no publish happens (or is about to
\* happen) unless health_check returned True earlier in the same run; while
\* it has not, no step changes the relational store or the warehouse, so a
\* run whose health check returns False leaves both as they were when the
\* run started.
C13_HealthCheckGatesWrites ==
    [](C13_Inv) /\ [][~HealthPassed => (rel' = rel /\ wh' = wh)]_vars

\* A second run whose health_check returned False has ended: the stores
\* still hold what the first, completed run left, although the files differ.
C13_Witness ==
    /\ RunEnded
    /\ hist.health = Some(FALSE)
    /\ hist.failedAt = Some("health_check")
    /\ ~IsNull(hist.prev)
    /\ Val(hist.prev).status = "done"
    /\ Val(hist.prev).files # files
    /\ rel = Val(hist.prev).rel
    /\ wh = Val(hist.prev).wh
    /\ rel.products # Some(files.products)

----------------------------------------------------------------------------
(* The three warehouse tables together, checked under Spec                 *)

\* Table t was replaced by this run: its publish statement ran and did not
\* fail.
Written(t) == Executed(WriterOf(t)) /\ hist.failedAt # Some(WriterOf(t))

\* Table t holds something else than this run's view of it.
Stale(t) == ~Transformed \/ wh[t] # SetToBag(ViewFor(t))

\* C14 as stated: after any run has ended, in Done or in Failed, the three
\* warehouse tables hold views computed from the same run's inputs: it never
\* happens that some table was replaced by the run while another still holds
\* an earlier output that differs from this run's view.
C14_AsStated ==
    RunEnded =>
        ~(\E t1, t2 \in Tables : Written(t1) /\ ~Written(t2) /\ Stale(t2))

\* C14, amended: the tables are replaced one at a time, in the order daily,
\* product, store, with no transaction across them.  After a run has ended
\* the tables it replaced are a prefix of that order; each replaced table
\* holds this run's complete view and each other table is as it was when the
\* run started.  All three are replaced after a run that ends in Done; a
\* run that fails at the second or third publish leaves the earlier tables
\* replaced and the later ones with the earlier output.
C14_PublishedPrefix ==
    RunEnded =>
        /\ Written("product_performance") => Written("daily_sales_summary")
        /\ Written("store_performance") => Written("product_performance")
        /\ \A t \in Tables :
              IF Written(t)
              THEN Transformed /\ wh[t] = SetToBag(ViewFor(t))
              ELSE wh[t] = hist.whStart[t]
        /\ hist.status = "done" => \A t \in Tables : Written(t)
        /\ hist.failedAt = Some("write_product") =>
              Written("daily_sales_summary") /\ ~Written("product_performance")
        /\ hist.failedAt = Some("write_store") =>
              Written("product_performance") /\ ~Written("store_performance")

\* The third publish failed: the run has ended with two tables holding its
\* views and store_performance still holding a different, earlier output.
C14_Witness ==
    /\ RunEnded
    /\ hist.failedAt = Some("write_store")
    /\ wh.daily_sales_summary = SetToBag(Val(views).daily)
    /\ wh.product_performance = SetToBag(Val(views).product)
    /\ wh.product_performance # hist.whStart.product_performance
    /\ wh.store_performance = hist.whStart.store_performance
    /\ wh.store_performance # SetToBag(Val(views).store)
    /\ wh.store_performance # EmptyBag

====
